---------------------------- MODULE Spec2Model ----------------------------
(***************************************************************************)
(* A model of the tsdoc node and text-range classes and of the playground  *)
(* renderer:                                                               *)
(*   DocParamCollection  (src/tsdoc/src/nodes/DocParamCollection.ts)       *)
(*   TextRange           (src/tsdoc/src/nodes/DocMemberSymbol.ts)          *)
(*   DocPlainText        (src/tsdoc/src/nodes/DocPlainText.ts)             *)
(*   DocHtmlView         (src/playground/src/DocHtmlView.tsx)              *)
(* A JavaScript string is a sequence of one-character strings; the value   *)
(* `undefined` is the record Undefined.                                    *)
(***************************************************************************)
EXTENDS Integers, Sequences, FiniteSets

VARIABLES
    blocks,        \* DocParamCollection._blocks
    blocksByName,  \* DocParamCollection._blocksByName
    added,         \* history: the arguments of add() since construction or the last clear()
    clearedBlocks, \* history: the blocks the name index held when clear() was last called
    args,          \* the buffer, pos and end the caller constructs a TextRange from
    range,         \* the TextRange the caller holds (buffer, pos, end), or NoRange
    node,          \* the DocPlainText the caller holds (text, textExcerpt), or NoNode
    docComment,    \* the DocComment handed to DocHtmlView as its props
    lastCall       \* the last call made: its name, its arguments and its outcome

vars == <<blocks, blocksByName, added, clearedBlocks, args, range, node, docComment, lastCall>>

-----------------------------------------------------------------------------
(* Bounds of the model *)

MaxBlocks == 3     \* add() calls between two clear() calls
MaxIds == 2        \* distinct DocParamBlock objects per parameter name
MaxLen == 2        \* length of a generated text buffer
MaxTokens == 3     \* tokens of a parsed excerpt
MaxRefs == 2       \* member references of a code destination
MaxCustom == 3     \* custom blocks of a comment

-----------------------------------------------------------------------------
(* Values *)

Undefined == [undefined |-> TRUE]

NoCall == [op |-> "none"]

\* an optional value: None is `undefined`, Some(v) is the value v
None == <<>>

Some(v) == <<v>>

\* min and max over integers, as Math.min / Math.max
Min(a, b) == IF a < b THEN a ELSE b

Max(a, b) == IF a > b THEN a ELSE b

\* the sequences over S of length at most n
SeqsUpTo(S, n) == UNION {[1..k -> S] : k \in 0..n}

-----------------------------------------------------------------------------
(* DocParamCollection *)

ParameterNames == {"x", "y"}

\* DocParamBlock objects: the id distinguishes two blocks of the same name
DocParamBlocks == [id : 1..MaxIds, parameterName : ParameterNames]

\* Map.prototype.has on the insertion-ordered entries of a Map
MapHas(entries, key) == \E i \in 1..Len(entries) : entries[i].key = key

\* Map.prototype.get: the value of the entry with the key, or undefined
MapGet(entries, key) ==
    IF MapHas(entries, key)
    THEN entries[CHOOSE i \in 1..Len(entries) : entries[i].key = key].value
    ELSE Undefined

\* Map.prototype.set: replaces the value of an existing key, appends a new one
MapSet(entries, key, value) ==
    IF MapHas(entries, key)
    THEN [i \in 1..Len(entries) |->
            IF entries[i].key = key THEN [key |-> key, value |-> value] ELSE entries[i]]
    ELSE Append(entries, [key |-> key, value |-> value])

\* the map after the on-demand allocation of add()
AllocatedMap(map) ==
    IF map.allocated THEN map ELSE [allocated |-> TRUE, entries |-> <<>>]

\* the first block to be added takes precedence
AddToMapDropFirst(map, docParamBlock) ==
    [allocated |-> TRUE,
     entries |-> MapSet(AllocatedMap(map).entries, docParamBlock.parameterName, docParamBlock)]

AddToMap(map, docParamBlock) ==
    IF ~MapHas(AllocatedMap(map).entries, docParamBlock.parameterName)
    THEN [allocated |-> TRUE,
          entries |-> MapSet(AllocatedMap(map).entries,
                             docParamBlock.parameterName, docParamBlock)]
    ELSE AllocatedMap(map)

\* Array.prototype.push
PushSkipDuplicate(array, docParamBlock) ==
    IF \E i \in 1..Len(array) : array[i].parameterName = docParamBlock.parameterName
    THEN array
    ELSE Append(array, docParamBlock)

Push(array, docParamBlock) == Append(array, docParamBlock)

\* this._blocks.length = 0
Truncate(array) == SubSeq(array, 1, 0)

\* this._blocksByName = undefined
DropMapKeep(map) == map

DropMapRenewed(map) == [allocated |-> TRUE, entries |-> <<>>]

DropMap(map) == [allocated |-> FALSE, entries |-> <<>>]

\* get count
count == Len(blocks)

\* [Symbol.iterator]: the blocks the iterator yields, in order
Iterate(array) == [i \in 1..Len(array) |-> array[i]]

\* tryGetBlockByName as a function of the name index
TryGetBlockByNameOf(map, parameterName) ==
    IF map.allocated THEN MapGet(map.entries, parameterName) ELSE Undefined

add(docParamBlock) ==
    /\ Len(blocks) < MaxBlocks
    /\ blocks' = Push(blocks, docParamBlock)
    /\ blocksByName' = AddToMap(blocksByName, docParamBlock)
    /\ added' = Append(added, docParamBlock)
    /\ lastCall' = [op |-> "add", docParamBlock |-> docParamBlock]
    /\ UNCHANGED <<clearedBlocks, args, range, node, docComment>>

clear ==
    /\ blocks' = Truncate(blocks)
    /\ blocksByName' = DropMap(blocksByName)
    /\ added' = <<>>
    /\ clearedBlocks' = {blocksByName.entries[i].value : i \in 1..Len(blocksByName.entries)}
    /\ lastCall' = [op |-> "clear"]
    /\ UNCHANGED <<args, range, node, docComment>>

tryGetBlockByName(parameterName) ==
    /\ lastCall' = [op |-> "tryGetBlockByName", parameterName |-> parameterName,
                    result |-> TryGetBlockByNameOf(blocksByName, parameterName)]
    /\ UNCHANGED <<blocks, blocksByName, added, clearedBlocks, args, range, node, docComment>>

getBlocks ==
    /\ lastCall' = [op |-> "blocks", result |-> blocks, count |-> count,
                    iterated |-> Iterate(blocks)]
    /\ UNCHANGED <<blocks, blocksByName, added, clearedBlocks, args, range, node, docComment>>

InitParams ==
    /\ blocks = <<>>
    /\ blocksByName = [allocated |-> FALSE, entries |-> <<>>]
    /\ added = <<>>
    /\ clearedBlocks = {}

NextParams ==
    \/ \E b \in DocParamBlocks : add(b)
    \/ clear
    \/ \E n \in ParameterNames \cup {"z"} : tryGetBlockByName(n)
    \/ getBlocks

-----------------------------------------------------------------------------
(* TextRange *)

\* the characters of the generated buffers: a letter, LF, CR, tab
Chars == {"a", "\n", "\r", "\t"}

\* the buffer of the example in the comment of getDebugDump
ExampleBuffer == <<"1", "2", "3", "4", "5", "6", "7">>

Buffers == SeqsUpTo(Chars, MaxLen) \cup {ExampleBuffer}

\* the delimiters handed to getDebugDump
Delimiters == {<<"[">>, <<"]">>, <<>>}

NoRange == [none |-> TRUE]

\* String.prototype.substring(start, end): both indexes are clamped to
\* 0..length and swapped when start > end
Substring(s, start, end) ==
    LET finalStart == Min(Max(start, 0), Len(s))
        finalEnd == Min(Max(end, 0), Len(s))
        from == Min(finalStart, finalEnd)
        to == Max(finalStart, finalEnd)
    IN  [i \in 1..(to - from) |-> s[from + i]]

\* String.prototype.substring(start): to the end of the string
SubstringFrom(s, start) == Substring(s, start, Len(s))

\* _validateBounds: the message of the Error it throws, or "" when it returns
ValidateBoundsNoEndLimit(buffer, pos, end) ==
    IF pos < 0 THEN "TextRange.pos cannot be negative"
    ELSE IF end < 0 THEN "TextRange.end cannot be negative"
    ELSE IF end < pos THEN "TextRange.end cannot be smaller than TextRange.pos"
    ELSE IF pos > Len(buffer)
         THEN "TextRange.pos cannot exceed the associated text buffer length"
    ELSE ""

ValidateBounds(buffer, pos, end) ==
    IF pos < 0 THEN "TextRange.pos cannot be negative"
    ELSE IF end < 0 THEN "TextRange.end cannot be negative"
    ELSE IF end < pos THEN "TextRange.end cannot be smaller than TextRange.pos"
    ELSE IF pos > Len(buffer)
         THEN "TextRange.pos cannot exceed the associated text buffer length"
    ELSE IF end > Len(buffer)
         THEN "TextRange.end cannot exceed the associated text buffer length"
    ELSE ""

\* the private constructor: the new object, or the Error of _validateBounds
NewTextRange(buffer, pos, end) ==
    IF ValidateBounds(buffer, pos, end) = ""
    THEN [threw |-> FALSE, message |-> "",
          result |-> [buffer |-> buffer, pos |-> pos, end |-> end]]
    ELSE [threw |-> TRUE, message |-> ValidateBounds(buffer, pos, end),
          result |-> NoRange]

\* toString
ToStringToEnd(r) == SubstringFrom(r.buffer, r.pos)

ToString(r) == Substring(r.buffer, r.pos, r.end)

\* getDebugDump
GetDebugDump(r, posDelimiter, endDelimiter) ==
    Substring(r.buffer, 0, r.pos) \o posDelimiter
        \o Substring(r.buffer, r.pos, r.end) \o endDelimiter
        \o SubstringFrom(r.buffer, r.end)

\* the while loop of getLocation, from currentIndex with the line and column so far
RECURSIVE LocationLoopCountCR(_, _, _, _, _)
LocationLoopCountCR(buffer, index, currentIndex, line, column) ==
    IF currentIndex < index
    THEN LET current == buffer[currentIndex + 1]
         IN  IF current = "\n"
             THEN LocationLoopCountCR(buffer, index, currentIndex + 1, line + 1, 1)
             ELSE LocationLoopCountCR(buffer, index, currentIndex + 1, line, column + 1)
    ELSE [line |-> line, column |-> column]

RECURSIVE LocationLoop(_, _, _, _, _)
LocationLoop(buffer, index, currentIndex, line, column) ==
    IF currentIndex < index
    THEN LET current == buffer[currentIndex + 1]
         IN  IF current = "\r"
             THEN LocationLoop(buffer, index, currentIndex + 1, line, column)
             ELSE IF current = "\n"
             THEN LocationLoop(buffer, index, currentIndex + 1, line + 1, 1)
             ELSE LocationLoop(buffer, index, currentIndex + 1, line, column + 1)
    ELSE [line |-> line, column |-> column]

\* getLocation
GetLocationRejectEnd(r, index) ==
    IF index < 0 \/ index >= Len(r.buffer)
    THEN [line |-> 0, column |-> 0]
    ELSE LocationLoop(r.buffer, index, 0, 1, 1)

GetLocationNoLowerGuard(r, index) ==
    IF index > Len(r.buffer)
    THEN [line |-> 0, column |-> 0]
    ELSE LocationLoop(r.buffer, index, 0, 1, 1)

GetLocation(r, index) ==
    IF index < 0 \/ index > Len(r.buffer)
    THEN [line |-> 0, column |-> 0]
    ELSE LocationLoop(r.buffer, index, 0, 1, 1)

\* the indexes tried on a buffer: one below and one above what it allows
Indexes(buffer) == -1..(Len(buffer) + 1)

fromString(buffer) ==
    /\ range' = NewTextRange(buffer, 0, Len(buffer)).result
    /\ lastCall' = [op |-> "fromString", buffer |-> buffer,
                    threw |-> NewTextRange(buffer, 0, Len(buffer)).threw,
                    result |-> NewTextRange(buffer, 0, Len(buffer)).result]
    /\ UNCHANGED <<blocks, blocksByName, added, clearedBlocks, args, node, docComment>>

fromStringRange(buffer, pos, end) ==
    /\ range' = NewTextRange(buffer, pos, end).result
    /\ lastCall' = [op |-> "fromStringRange", buffer |-> buffer, pos |-> pos, end |-> end,
                    threw |-> NewTextRange(buffer, pos, end).threw,
                    result |-> NewTextRange(buffer, pos, end).result]
    /\ UNCHANGED <<blocks, blocksByName, added, clearedBlocks, args, node, docComment>>

\* getNewRange that also holds the new range within the receiver's own
getNewRangeWithinReceiver(pos, end) ==
    /\ range # NoRange
    /\ lastCall' =
          IF pos < range.pos \/ end > range.end
          THEN [op |-> "getNewRange", buffer |-> range.buffer, pos |-> pos, end |-> end,
                threw |-> TRUE, result |-> NoRange]
          ELSE [op |-> "getNewRange", buffer |-> range.buffer, pos |-> pos, end |-> end,
                threw |-> NewTextRange(range.buffer, pos, end).threw,
                result |-> NewTextRange(range.buffer, pos, end).result]
    /\ UNCHANGED <<blocks, blocksByName, added, clearedBlocks, args, range, node, docComment>>

getNewRange(pos, end) ==
    /\ range # NoRange
    /\ lastCall' = [op |-> "getNewRange", buffer |-> range.buffer, pos |-> pos, end |-> end,
                    threw |-> NewTextRange(range.buffer, pos, end).threw,
                    result |-> NewTextRange(range.buffer, pos, end).result]
    /\ UNCHANGED <<blocks, blocksByName, added, clearedBlocks, args, range, node, docComment>>

toString ==
    /\ range # NoRange
    /\ lastCall' = [op |-> "toString", result |-> ToString(range)]
    /\ UNCHANGED <<blocks, blocksByName, added, clearedBlocks, args, range, node, docComment>>

getDebugDump(posDelimiter, endDelimiter) ==
    /\ range # NoRange
    /\ lastCall' = [op |-> "getDebugDump", posDelimiter |-> posDelimiter,
                    endDelimiter |-> endDelimiter,
                    result |-> GetDebugDump(range, posDelimiter, endDelimiter)]
    /\ UNCHANGED <<blocks, blocksByName, added, clearedBlocks, args, range, node, docComment>>

getLocation(index) ==
    /\ range # NoRange
    /\ lastCall' = [op |-> "getLocation", index |-> index, threw |-> FALSE,
                    result |-> GetLocation(range, index)]
    /\ UNCHANGED <<blocks, blocksByName, added, clearedBlocks, args, range, node, docComment>>

\* the arguments of a construction: a buffer and two integers around its bounds
RangeArgs ==
    UNION {[buffer : {b}, pos : Indexes(b), end : Indexes(b)] : b \in Buffers}

NoArgs == [buffer |-> <<>>, pos |-> 0, end |-> 0]

InitRange ==
    /\ args \in RangeArgs
    /\ range = NoRange

NextRange ==
    \/ fromString(args.buffer)
    \/ fromStringRange(args.buffer, args.pos, args.end)
    \/ \E pos, end \in Indexes(args.buffer) : getNewRange(pos, end)
    \/ toString
    \/ \E posDelimiter, endDelimiter \in Delimiters :
          getDebugDump(posDelimiter, endDelimiter)
    \/ \E index \in Indexes(args.buffer) : getLocation(index)

-----------------------------------------------------------------------------
(* DocPlainText *)

NoNode == [none |-> TRUE]

\* the text values handed to the constructor
Texts == SeqsUpTo(Chars, MaxLen)

\* the texts of the tokens an excerpt is made of: a word, a spacing, a newline
TokenTexts == {<<"a">>, <<" ">>, <<"\n">>}

\* TokenSequence: the tokens a parsed node's excerpt covers
TokenSequences == SeqsUpTo(TokenTexts, MaxTokens)

\* TokenSequence.toString: the concatenation of the texts of the tokens
RECURSIVE TokenSequenceToString(_)
TokenSequenceToString(tokens) ==
    IF tokens = <<>> THEN <<>>
    ELSE Head(tokens) \o TokenSequenceToString(Tail(tokens))

\* _newlineCharacterRegExp.test(text), the RegExp being /[\n]/
NewlineTestAnchored(text) == Len(text) > 0 /\ text[1] = "\n"

NewlineCharacterRegExpTest(text) == \E i \in 1..Len(text) : text[i] = "\n"

\* the constructor: the new node, or the Error it throws
NewDocPlainText(parsed, text, textExcerpt) ==
    IF parsed
    THEN [threw |-> FALSE, result |-> [text |-> None, textExcerpt |-> Some(textExcerpt)]]
    ELSE IF NewlineCharacterRegExpTest(text)
    THEN [threw |-> TRUE, result |-> NoNode]
    ELSE [threw |-> FALSE, result |-> [text |-> Some(text), textExcerpt |-> None]]

\* get text: the node after the read (the cache filled in) and the value returned
GetTextNoCache(n) ==
    [node |-> n,
     result |-> IF n.text = None THEN TokenSequenceToString(n.textExcerpt[1])
                ELSE n.text[1]]

GetText(n) ==
    LET filled == IF n.text = None
                  THEN [n EXCEPT !.text = Some(TokenSequenceToString(n.textExcerpt[1]))]
                  ELSE n
    IN  [node |-> filled, result |-> filled.text[1]]

\* get textExcerpt
GetTextExcerpt(n) == IF n.textExcerpt # None THEN n.textExcerpt ELSE None

newLiteral(text) ==
    /\ node' = NewDocPlainText(FALSE, text, <<>>).result
    /\ lastCall' = [op |-> "newLiteral", text |-> text,
                    threw |-> NewDocPlainText(FALSE, text, <<>>).threw]
    /\ UNCHANGED <<blocks, blocksByName, added, clearedBlocks, args, range, docComment>>

newParsed(textExcerpt) ==
    /\ node' = NewDocPlainText(TRUE, <<>>, textExcerpt).result
    /\ lastCall' = [op |-> "newParsed", textExcerpt |-> textExcerpt,
                    threw |-> NewDocPlainText(TRUE, <<>>, textExcerpt).threw]
    /\ UNCHANGED <<blocks, blocksByName, added, clearedBlocks, args, range, docComment>>

getText ==
    /\ node # NoNode
    /\ node' = GetText(node).node
    /\ lastCall' = [op |-> "text", result |-> GetText(node).result]
    /\ UNCHANGED <<blocks, blocksByName, added, clearedBlocks, args, range, docComment>>

getTextExcerpt ==
    /\ node # NoNode
    /\ lastCall' = [op |-> "textExcerpt", result |-> GetTextExcerpt(node)]
    /\ UNCHANGED <<blocks, blocksByName, added, clearedBlocks, args, range, node, docComment>>

InitNode == node = NoNode

NextNode ==
    \/ \E text \in Texts : newLiteral(text)
    \/ \E textExcerpt \in TokenSequences : newParsed(textExcerpt)
    \/ getText
    \/ getTextExcerpt

-----------------------------------------------------------------------------
(* DocHtmlView: the text shown for a link tag.  The texts of a link tag are *)
(* opaque here and are TLA+ strings.                                        *)

LinkTexts == {"", "text"}

UrlDestinations == {"", "http://u"}

Identifiers == {"", "A", "B"}

\* DocMemberReference: its memberIdentifier is optional
MemberReferences == [memberIdentifier : {None} \cup {Some([identifier |-> i]) : i \in Identifiers}]

\* DocDeclarationReference: its memberReferences
CodeDestinations == [memberReferences : SeqsUpTo(MemberReferences, MaxRefs)]

\* DocLinkTag as the renderer reads it
LinkTags ==
    [linkText : {None} \cup {Some(t) : t \in LinkTexts},
     urlDestination : {None} \cup {Some(u) : u \in UrlDestinations},
     codeDestination : {None} \cup {Some(c) : c \in CodeDestinations}]

\* the truthiness of an optional string: defined and not empty
Truthy(optionalString) == optionalString # None /\ optionalString[1] # ""

\* a || b on an optional string a and a string b
OrElse(optionalString, b) == IF Truthy(optionalString) THEN optionalString[1] ELSE b

\* the identifier the renderer derives from the code destination, '' if none
IdentifierOfFirst(linkTag) ==
    IF linkTag.codeDestination # None
    THEN LET memberReferences == linkTag.codeDestination[1].memberReferences
         IN  IF Len(memberReferences) > 0
             THEN LET memberIdentifier == memberReferences[1].memberIdentifier
                  IN  IF memberIdentifier # None THEN memberIdentifier[1].identifier ELSE ""
             ELSE ""
    ELSE ""

IdentifierOf(linkTag) ==
    IF linkTag.codeDestination # None
    THEN LET memberReferences == linkTag.codeDestination[1].memberReferences
         IN  IF Len(memberReferences) > 0
             THEN LET memberIdentifier ==
                          memberReferences[Len(memberReferences)].memberIdentifier
                  IN  IF memberIdentifier # None THEN memberIdentifier[1].identifier ELSE ""
             ELSE ""
    ELSE ""

\* _renderDocNode, case 'LinkTag': the text of the <a> element
RenderLinkTag(linkTag) ==
    IF Truthy(linkTag.urlDestination)
    THEN OrElse(linkTag.linkText, linkTag.urlDestination[1])
    ELSE OrElse(linkTag.linkText, OrElse(Some(IdentifierOf(linkTag)), "???"))

renderLinkTag(linkTag) ==
    /\ lastCall' = [op |-> "renderLinkTag", linkTag |-> linkTag,
                    result |-> RenderLinkTag(linkTag)]
    /\ UNCHANGED <<blocks, blocksByName, added, clearedBlocks, args, range, node, docComment>>

\* a DocHtmlView that was given no comment
NoComment == [none |-> TRUE]

NextView ==
    \/ \E linkTag \in LinkTags : renderLinkTag(linkTag)

-----------------------------------------------------------------------------
(* DocHtmlView.render: the sections of the output, each with its heading *)

\* StandardTags.example.tagNameWithUpperCase
ExampleTagName == "@EXAMPLE"

\* DocBlock among the custom blocks: its tag and its content
CustomBlocks == [tagNameWithUpperCase : {ExampleTagName, "@CUSTOMTAG"}, content : 1..2]

\* DocComment as render reads it: which sections it has, and how many
\* parameter blocks, see blocks and modifier tags
DocComments ==
    [summarySection : BOOLEAN, params : 0..1, returnsBlock : BOOLEAN,
     remarksBlock : BOOLEAN, customBlocks : SeqsUpTo(CustomBlocks, MaxCustom),
     seeBlocks : 0..1, modifierTags : 0..1]

\* the decimal digits of a positive number, as a template literal prints it
DigitChar(d) == <<"0", "1", "2", "3", "4", "5", "6", "7", "8", "9">>[d + 1]

RECURSIVE NumberToString(_)
NumberToString(n) ==
    IF n < 10 THEN <<DigitChar(n)>>
    ELSE NumberToString(n \div 10) \o <<DigitChar(n % 10)>>

\* customBlocks.filter(...): the blocks whose tag is @example
RECURSIVE FilterExamples(_)
FilterExamples(customBlocks) ==
    IF customBlocks = <<>> THEN <<>>
    ELSE IF Head(customBlocks).tagNameWithUpperCase = ExampleTagName
    THEN <<Head(customBlocks)>> \o FilterExamples(Tail(customBlocks))
    ELSE FilterExamples(Tail(customBlocks))

\* the heading of an example block: a string and the digits that follow it
ExampleHeadingAlwaysNumbered(length, exampleNumber) ==
    <<"Example ">> \o NumberToString(exampleNumber)

ExampleHeading(length, exampleNumber) ==
    IF length > 1 THEN <<"Example ">> \o NumberToString(exampleNumber)
    ELSE <<"Example">>

\* the for loop over exampleBlocks, from the block at index i
RECURSIVE ExampleElements(_, _, _)
ExampleElements(exampleBlocks, i, exampleNumber) ==
    IF i > Len(exampleBlocks) THEN <<>>
    ELSE <<[key |-> "seeAlso",
            heading |-> ExampleHeading(Len(exampleBlocks), exampleNumber),
            content |-> exampleBlocks[i].content]>>
         \o ExampleElements(exampleBlocks, i + 1, exampleNumber + 1)

\* one section of the output, when the comment has it
Section(present, key, heading) ==
    IF present THEN <<[key |-> key, heading |-> <<heading>>, content |-> 0]>> ELSE <<>>

\* render: outputElements
Render(dc) ==
    Section(dc.summarySection, "summary", "Summary")
        \o Section(dc.params > 0, "parameters", "Parameters")
        \o Section(dc.returnsBlock, "returns", "Return Value")
        \o Section(dc.remarksBlock, "remarks", "Remarks")
        \o ExampleElements(FilterExamples(dc.customBlocks), 1, 1)
        \o Section(dc.seeBlocks > 0, "seeAlso", "See Also")
        \o Section(dc.modifierTags > 0, "modifiers", "Modifiers")

render ==
    /\ docComment # NoComment
    /\ lastCall' = [op |-> "render", result |-> Render(docComment)]
    /\ UNCHANGED <<blocks, blocksByName, added, clearedBlocks, args, range, node, docComment>>

InitComment == docComment \in DocComments

NextRender ==
    \/ render

-----------------------------------------------------------------------------
(* Tokenizer.  Its source is not part of the files modelled here; it is     *)
(* modelled from its specification and from the kinds its tests name.       *)

\* the punctuation characters that have a token kind of their own
SpecialMap ==
    [c \in {"\\", "\"", "/", "@", "{", "}", "|"} |->
        CASE c = "\\" -> "Backslash"
          [] c = "\"" -> "DoubleQuote"
          [] c = "/" -> "Slash"
          [] c = "@" -> "AtSign"
          [] c = "{" -> "LeftCurlyBracket"
          [] c = "}" -> "RightCurlyBracket"
          [] c = "|" -> "Pipe"]

\* the punctuation characters without a kind of their own
OtherPunctuationChars == {"!", "%"}

\* TokenKind
TokenKinds ==
    {"EndOfInput", "Newline", "Spacing", "AsciiWord", "OtherPunctuation", "Other"}
        \cup {SpecialMap[c] : c \in DOMAIN SpecialMap}

\* the kind of a character: a letter or digit, a space or tab, a punctuation
\* character, anything else
CharKind(c) ==
    IF c \in DOMAIN SpecialMap THEN SpecialMap[c]
    ELSE IF c \in OtherPunctuationChars THEN "OtherPunctuation"
    ELSE IF c \in {"a", "1"} THEN "AsciiWord"
    ELSE IF c \in {" ", "\t"} THEN "Spacing"
    ELSE "Other"

\* the table of the punctuation kinds: those of the special characters, and
\* OtherPunctuation
PunctuationTokensSpecialOnly == {SpecialMap[c] : c \in DOMAIN SpecialMap}

PunctuationTokens == {SpecialMap[c] : c \in DOMAIN SpecialMap} \cup {"OtherPunctuation"}

\* Tokenizer.isPunctuation
IsPunctuation(tokenKind) == tokenKind \in PunctuationTokens

\* the tokens of a line: a punctuation character is a token of its own, a run
\* of characters of one other kind is one token
RECURSIVE TokensForLine(_, _)
TokensForLine(line, tokens) ==
    IF line = <<>> THEN tokens
    ELSE LET kind == CharKind(Head(line))
             n == Len(tokens)
         IN  IF n > 0 /\ tokens[n].kind = kind /\ ~IsPunctuation(kind)
             THEN TokensForLine(Tail(line),
                      [tokens EXCEPT ![n].text = Append(tokens[n].text, Head(line))])
             ELSE TokensForLine(Tail(line),
                      Append(tokens, [kind |-> kind, text |-> <<Head(line)>>]))

\* Tokenizer.readTokens on one line: its tokens, then the end of input
ReadTokens(line) ==
    Append(TokensForLine(line, <<>>), [kind |-> "EndOfInput", text |-> <<>>])

\* the characters of the lines tokenized
LineChars == {"a", " ", "/", "\"", "!"}

LineArgs == [buffer : SeqsUpTo(LineChars, MaxLen), pos : {0}, end : {0}]

readTokens ==
    /\ lastCall' = [op |-> "readTokens", line |-> args.buffer,
                    result |-> ReadTokens(args.buffer)]
    /\ UNCHANGED <<blocks, blocksByName, added, clearedBlocks, args, range, node, docComment>>

isPunctuation(tokenKind) ==
    /\ lastCall' = [op |-> "isPunctuation", tokenKind |-> tokenKind,
                    result |-> IsPunctuation(tokenKind)]
    /\ UNCHANGED <<blocks, blocksByName, added, clearedBlocks, args, range, node, docComment>>

NextTokenizer ==
    \/ readTokens
    \/ \E tokenKind \in TokenKinds : isPunctuation(tokenKind)

-----------------------------------------------------------------------------
(* The program *)

\* the state of a component nothing has been done with
IdleParams == InitParams

IdleRange == args = NoArgs /\ range = NoRange

IdleNode == InitNode

IdleComment == docComment = NoComment

Init ==
    /\ InitParams
    /\ InitRange
    /\ InitNode
    /\ InitComment
    /\ lastCall = NoCall

Next ==
    \/ NextParams
    \/ NextRange
    \/ NextNode
    \/ NextView
    \/ NextTokenizer
    \/ NextRender

Spec == Init /\ [][Next]_vars

\* the DocParamCollection alone
InitOfParams == IdleComment /\ InitParams /\ IdleRange /\ IdleNode /\ lastCall = NoCall

SpecParams == InitOfParams /\ [][NextParams]_vars

\* the TextRange alone
InitOfRange == IdleComment /\ IdleParams /\ InitRange /\ IdleNode /\ lastCall = NoCall

SpecRange == InitOfRange /\ [][NextRange]_vars

\* the DocPlainText alone
InitOfNode == IdleComment /\ IdleParams /\ IdleRange /\ InitNode /\ lastCall = NoCall

SpecNode == InitOfNode /\ [][NextNode]_vars

\* the renderer alone
InitOfView == IdleComment /\ IdleParams /\ IdleRange /\ IdleNode /\ lastCall = NoCall

SpecView == InitOfView /\ [][NextView]_vars

\* DocHtmlView.render alone
InitOfRender ==
    /\ IdleParams /\ IdleRange /\ IdleNode /\ InitComment
    /\ lastCall = NoCall

SpecRender == InitOfRender /\ [][NextRender]_vars

\* the Tokenizer alone
InitOfTokenizer ==
    /\ IdleParams /\ args \in LineArgs /\ range = NoRange /\ IdleNode /\ IdleComment
    /\ lastCall = NoCall

SpecTokenizer == InitOfTokenizer /\ [][NextTokenizer]_vars

-----------------------------------------------------------------------------
(* DocParamCollection: claims *)

\* the earliest block of the history with the name, or undefined
FirstAdded(history, n) ==
    IF \E i \in 1..Len(history) : history[i].parameterName = n
    THEN history[CHOOSE i \in 1..Len(history) :
                    /\ history[i].parameterName = n
                    /\ \A j \in 1..(i - 1) : history[j].parameterName # n]
    ELSE Undefined

\* C1: after any sequence of add and clear calls, tryGetBlockByName(n) returns
\* the earliest-added block since the last clear whose parameterName is n, and
\* undefined when no block of that name is in the collection; so a later add of
\* an already-present name leaves the answer for that name unchanged.
C1_FirstAddedWins ==
    /\ \A n \in ParameterNames \cup {"z"} :
          TryGetBlockByNameOf(blocksByName, n) = FirstAdded(added, n)
    /\ lastCall.op = "tryGetBlockByName" =>
          lastCall.result = FirstAdded(added, lastCall.parameterName)

\* C1 witness: a second, different block of a name already present was added,
\* and the lookup that followed answered with the first one
C1_Witness ==
    /\ lastCall.op = "tryGetBlockByName"
    /\ Len(added) >= 2
    /\ \E i, j \in 1..Len(added) :
          /\ i < j
          /\ added[i].parameterName = lastCall.parameterName
          /\ added[j].parameterName = lastCall.parameterName
          /\ added[i] # added[j]
          /\ lastCall.result = added[i]

\* C2: after k add calls since construction or the last clear, count is k
\* (duplicates of a name included) and the blocks array and the iterator yield
\* exactly those k blocks in the order they were added.
C2_CountAndOrder ==
    /\ count = Len(added)
    /\ blocks = added
    /\ Iterate(blocks) = added
    /\ lastCall.op = "blocks" =>
          /\ lastCall.count = Len(added)
          /\ lastCall.result = added
          /\ lastCall.iterated = added

\* C2 witness: the blocks named x, y, x were added and then read back
C2_Witness ==
    /\ lastCall.op = "blocks"
    /\ lastCall.count = 3
    /\ Len(added) = 3
    /\ added[1].parameterName = "x"
    /\ added[2].parameterName = "y"
    /\ added[3].parameterName = "x"

-----------------------------------------------------------------------------
(* TextRange: claims *)

\* the bounds a construction rejects
OutOfBounds(buffer, pos, end) ==
    pos < 0 \/ end < 0 \/ end < pos \/ pos > Len(buffer) \/ end > Len(buffer)

\* the characters of the buffer at the offsets pos..end-1
CharsAt(buffer, pos, end) == [i \in 1..(end - pos) |-> buffer[pos + i]]

Constructs == {"fromStringRange", "getNewRange"}

\* C3: fromStringRange(buffer,pos,end) and getNewRange(pos,end) throw, and
\* yield no TextRange, whenever pos<0, end<0, end<pos, pos>length(buffer) or
\* end>length(buffer).
C3_OutOfBoundsThrows ==
    /\ lastCall.op \in Constructs /\ OutOfBounds(lastCall.buffer, lastCall.pos, lastCall.end)
          => lastCall.threw /\ lastCall.result = NoRange
    /\ lastCall.op = "fromStringRange"
          /\ OutOfBounds(lastCall.buffer, lastCall.pos, lastCall.end)
          => range = NoRange
    /\ range # NoRange => ~OutOfBounds(range.buffer, range.pos, range.end)

\* C3 witness: a construction whose end lies beyond the buffer, and nothing
\* else wrong with it, has thrown
C3_Witness ==
    /\ lastCall.op \in Constructs
    /\ lastCall.pos >= 0
    /\ lastCall.pos <= Len(lastCall.buffer)
    /\ lastCall.end > Len(lastCall.buffer)
    /\ lastCall.threw

\* C4: for 0 <= pos <= end <= length(buffer), fromStringRange(buffer,pos,end)
\* succeeds and its toString() is the characters of buffer at pos..end-1;
\* fromString(buffer) always succeeds and its toString() is buffer.
C4_RoundTrip ==
    /\ lastCall.op = "fromStringRange"
          /\ ~OutOfBounds(lastCall.buffer, lastCall.pos, lastCall.end)
          => /\ ~lastCall.threw
             /\ lastCall.result =
                   [buffer |-> lastCall.buffer, pos |-> lastCall.pos, end |-> lastCall.end]
             /\ range = lastCall.result
             /\ ToString(lastCall.result) =
                   CharsAt(lastCall.buffer, lastCall.pos, lastCall.end)
    /\ lastCall.op = "fromString"
          => /\ ~lastCall.threw
             /\ range = lastCall.result
             /\ ToString(lastCall.result) = lastCall.buffer
    /\ lastCall.op = "toString"
          => lastCall.result = CharsAt(range.buffer, range.pos, range.end)

\* C4 witness: toString() was read from a proper, non-empty part of a buffer
C4_Witness ==
    /\ lastCall.op = "toString"
    /\ range # NoRange
    /\ range.pos > 0
    /\ range.end < Len(range.buffer)
    /\ range.pos < range.end
    /\ lastCall.result = CharsAt(range.buffer, range.pos, range.end)

\* C5 as stated: getLocation(0) on a TextRange whose buffer is empty returns
\* the degenerate location {line: 0, column: 0}.
C5_EmptyBufferDegenerate ==
    lastCall.op = "getLocation" /\ Len(range.buffer) = 0 /\ lastCall.index = 0
        => lastCall.result = [line |-> 0, column |-> 0]

\* C5 amended: getLocation(0) on a TextRange whose buffer is empty returns the
\* first location {line: 1, column: 1}, as it does at index 0 of any buffer.
C5_EmptyBufferFirstLocation ==
    lastCall.op = "getLocation" /\ Len(range.buffer) = 0 /\ lastCall.index = 0
        => lastCall.result = [line |-> 1, column |-> 1]

\* C5 witness: getLocation(0) was called on a range of the empty buffer
C5_Witness ==
    /\ lastCall.op = "getLocation"
    /\ range # NoRange
    /\ range.buffer = <<>>
    /\ lastCall.index = 0

\* C6: for index < 0 or index > length of the buffer, getLocation(index)
\* returns {line: 0, column: 0} and does not throw.
C6_OutOfRangeDegenerate ==
    lastCall.op = "getLocation"
        /\ (lastCall.index < 0 \/ lastCall.index > Len(range.buffer))
        => ~lastCall.threw /\ lastCall.result = [line |-> 0, column |-> 0]

\* C6 witness: getLocation was called with a negative index on a non-empty buffer
C6_Witness ==
    /\ lastCall.op = "getLocation"
    /\ lastCall.index < 0
    /\ Len(range.buffer) > 0
    /\ lastCall.result = [line |-> 0, column |-> 0]

\* C10 as stated: getDebugDump returns the whole buffer with the delimiters
\* inserted around the range, and for the delimiters "[" and "]" and the range
\* 3..5 inside "1234567" the output is "12[345]67".
C10_DebugDumpExample ==
    lastCall.op = "getDebugDump" =>
        /\ lastCall.result =
              CharsAt(range.buffer, 0, range.pos) \o lastCall.posDelimiter
                  \o CharsAt(range.buffer, range.pos, range.end) \o lastCall.endDelimiter
                  \o CharsAt(range.buffer, range.end, Len(range.buffer))
        /\ (/\ range = [buffer |-> ExampleBuffer, pos |-> 3, end |-> 5]
            /\ lastCall.posDelimiter = <<"[">>
            /\ lastCall.endDelimiter = <<"]">>)
              => lastCall.result = <<"1", "2", "[", "3", "4", "5", "]", "6", "7">>

-----------------------------------------------------------------------------
(* DocPlainText: claims *)

HasNewline(text) == "\n" \in {text[i] : i \in 1..Len(text)}

\* C7: constructing a DocPlainText from a literal text throws for every string
\* that contains a '\n', and succeeds with text equal to the supplied string
\* for every string that contains none.
C7_LiteralRejectsNewline ==
    lastCall.op = "newLiteral" =>
        /\ HasNewline(lastCall.text) => lastCall.threw /\ node = NoNode
        /\ ~HasNewline(lastCall.text) =>
              /\ ~lastCall.threw
              /\ node # NoNode
              /\ GetText(node).result = lastCall.text

\* C7 witness: a literal whose newline is not its first character was rejected
C7_Witness ==
    /\ lastCall.op = "newLiteral"
    /\ Len(lastCall.text) = 2
    /\ lastCall.text[1] = "a"
    /\ lastCall.text[2] = "\n"
    /\ lastCall.threw

\* C8 as stated: for every DocPlainText node that exists, built from a parsed
\* excerpt or from a literal value, the text property contains no newline.
C8_TextHasNoNewline ==
    node # NoNode => ~HasNewline(GetText(node).result)

-----------------------------------------------------------------------------
(* DocHtmlView: claims *)

\* an optional text is present when it is defined and not empty
Present(optionalString) == optionalString # None /\ optionalString[1] # ""

\* the identifier of the last member reference of the code destination, if any
LastIdentifier(linkTag) ==
    IF linkTag.codeDestination = None THEN None
    ELSE LET refs == linkTag.codeDestination[1].memberReferences
         IN  IF refs = <<>> THEN None
             ELSE IF refs[Len(refs)].memberIdentifier = None THEN None
             ELSE Some(refs[Len(refs)].memberIdentifier[1].identifier)

\* C9: the text shown for a link tag is its linkText if present; otherwise,
\* for a URL link, the URL destination; otherwise, for a code link, the
\* identifier of the last member reference of the code destination if there
\* is one; otherwise the placeholder '???'.
C9_LinkTextFallback ==
    lastCall.op = "renderLinkTag" =>
        LET linkTag == lastCall.linkTag
        IN  lastCall.result =
               IF Present(linkTag.linkText) THEN linkTag.linkText[1]
               ELSE IF Present(linkTag.urlDestination) THEN linkTag.urlDestination[1]
               ELSE IF Present(LastIdentifier(linkTag)) THEN LastIdentifier(linkTag)[1]
               ELSE "???"

\* C9 witness: a code link without link text whose first and last member
\* references differ was rendered as the identifier of the last
C9_Witness ==
    /\ lastCall.op = "renderLinkTag"
    /\ lastCall.linkTag.linkText = None
    /\ lastCall.linkTag.urlDestination = None
    /\ lastCall.linkTag.codeDestination # None
    /\ LET refs == lastCall.linkTag.codeDestination[1].memberReferences
       IN  /\ Len(refs) = 2
           /\ refs[1].memberIdentifier = Some([identifier |-> "A"])
           /\ refs[2].memberIdentifier = Some([identifier |-> "B"])
    /\ lastCall.result = "B"

-----------------------------------------------------------------------------
(* Tokenizer: claims *)

\* the kinds the tokenizer gives to punctuation characters
KindsOfPunctuation ==
    {CharKind(c) : c \in DOMAIN SpecialMap \cup OtherPunctuationChars}

\* C11: Tokenizer.isPunctuation(kind) is true for every punctuation token kind
\* (OtherPunctuation, DoubleQuote and Slash among them) and false for the
\* kinds EndOfInput, Spacing and AsciiWord.
C11_IsPunctuation ==
    lastCall.op = "isPunctuation" =>
        /\ lastCall.tokenKind \in KindsOfPunctuation => lastCall.result
        /\ lastCall.tokenKind \in {"OtherPunctuation", "DoubleQuote", "Slash"}
              => lastCall.result
        /\ lastCall.tokenKind \in {"EndOfInput", "Spacing", "AsciiWord"}
              => ~lastCall.result

\* C11 witness: isPunctuation was asked about OtherPunctuation and said yes
C11_Witness ==
    /\ lastCall.op = "isPunctuation"
    /\ lastCall.tokenKind = "OtherPunctuation"
    /\ lastCall.result

-----------------------------------------------------------------------------
(* DocParamCollection: claims about clear() and the name index *)

AllNames == ParameterNames \cup {"z"}

\* C13: after clear() in any state, count is 0, blocks is empty and
\* tryGetBlockByName returns undefined for every name; a block added
\* afterwards is found by its name even if a different block with the same
\* name had been added before the clear.
C13_ClearForgets ==
    /\ lastCall.op = "clear" =>
          /\ count = 0
          /\ blocks = <<>>
          /\ \A n \in AllNames : TryGetBlockByNameOf(blocksByName, n) = Undefined
    /\ lastCall.op = "tryGetBlockByName" /\ added = <<>> => lastCall.result = Undefined
    /\ added # <<>> =>
          TryGetBlockByNameOf(blocksByName, added[1].parameterName) = added[1]
    /\ lastCall.op = "tryGetBlockByName" /\ added # <<>>
          /\ lastCall.parameterName = added[1].parameterName
          => lastCall.result = added[1]

\* C13 witness: a block was looked up and found by its name after a clear()
\* that had removed a different block of the same name
C13_Witness ==
    /\ lastCall.op = "tryGetBlockByName"
    /\ added # <<>>
    /\ lastCall.result = added[1]
    /\ \E b \in clearedBlocks :
          b.parameterName = added[1].parameterName /\ b # added[1]

\* C16: in every reachable state the name index is absent exactly when the
\* block list is empty, and when present its keys are exactly the
\* parameterName values of the blocks in the list, each key mapped to a block
\* that is in the list.
C16_IndexMatchesList ==
    /\ ~blocksByName.allocated <=> blocks = <<>>
    /\ blocksByName.allocated =>
          /\ {blocksByName.entries[i].key : i \in 1..Len(blocksByName.entries)}
                = {blocks[i].parameterName : i \in 1..Len(blocks)}
          /\ \A i \in 1..Len(blocksByName.entries) :
                /\ \E j \in 1..Len(blocks) : blocks[j] = blocksByName.entries[i].value
                /\ blocksByName.entries[i].value.parameterName = blocksByName.entries[i].key
          /\ \A i, j \in 1..Len(blocksByName.entries) :
                blocksByName.entries[i].key = blocksByName.entries[j].key => i = j

\* C16 witness: the list is empty again after a clear() that removed blocks,
\* and the index is absent
C16_Witness ==
    /\ lastCall.op = "clear"
    /\ clearedBlocks # {}
    /\ blocks = <<>>
    /\ ~blocksByName.allocated

-----------------------------------------------------------------------------
(* TextRange: claims about getLocation and getNewRange *)

\* the offsets below index that hold a '\n'
Newlines(buffer, index) == {i \in 1..index : buffer[i] = "\n"}

\* the offset of the last '\n' below index, 0 if there is none
LastNewline(buffer, index) ==
    IF Newlines(buffer, index) = {} THEN 0
    ELSE CHOOSE i \in Newlines(buffer, index) : \A j \in Newlines(buffer, index) : j <= i

\* C12: for 0 <= index <= length of the buffer, getLocation(index) returns
\* line = 1 + the number of '\n' in buffer[0..index) and column = 1 + the
\* number of characters other than '\r' and '\n' after the last '\n' within
\* buffer[0..index), a tab counting as one column; the result depends on the
\* buffer and the index only, not on the pos and end of the range.
C12_LineAndColumn ==
    lastCall.op = "getLocation" /\ lastCall.index >= 0
        /\ lastCall.index <= Len(range.buffer)
        => /\ lastCall.result.line =
                 1 + Cardinality(Newlines(range.buffer, lastCall.index))
           /\ lastCall.result.column =
                 1 + Cardinality({i \in (LastNewline(range.buffer, lastCall.index) + 1)
                                            ..lastCall.index :
                                     range.buffer[i] \notin {"\r", "\n"}})
           /\ \A pos, end \in 0..Len(range.buffer) :
                 pos <= end =>
                    GetLocation([buffer |-> range.buffer, pos |-> pos, end |-> end],
                                lastCall.index) = lastCall.result

\* C12 witness: the location after a CR, LF pair read through an empty range
\* at the start of the buffer is line 2, column 1
C12_Witness ==
    /\ lastCall.op = "getLocation"
    /\ range # NoRange
    /\ range.buffer = <<"\r", "\n">>
    /\ range.pos = 0
    /\ range.end = 0
    /\ lastCall.index = 2
    /\ lastCall.result = [line |-> 2, column |-> 1]

\* C17: getNewRange(p,e) on a TextRange r is checked against r's buffer only:
\* it succeeds exactly when 0 <= p <= e <= length(r.buffer), the result has
\* the same buffer with pos = p and end = e, so it may lie outside r, and r's
\* buffer, pos and end are unchanged.
C17_NewRangeAgainstBuffer ==
    [][lastCall'.op = "getNewRange" =>
          /\ range' = range
          /\ lastCall'.threw <=> OutOfBounds(range.buffer, lastCall'.pos, lastCall'.end)
          /\ ~lastCall'.threw =>
                lastCall'.result =
                   [buffer |-> range.buffer, pos |-> lastCall'.pos, end |-> lastCall'.end]
          /\ lastCall'.threw => lastCall'.result = NoRange]_vars

\* C17 witness: getNewRange gave a range that lies wholly outside its receiver
C17_Witness ==
    /\ lastCall.op = "getNewRange"
    /\ range # NoRange
    /\ ~lastCall.threw
    /\ lastCall.result.buffer = range.buffer
    /\ lastCall.result.end <= range.pos
    /\ lastCall.result.pos < lastCall.result.end

-----------------------------------------------------------------------------
(* DocPlainText: claims about the cached text *)

\* C14: for a parsed DocPlainText node, the text is computed from the excerpt
\* on the first read of text and cached: every later read returns the same
\* string as the first, the cached value never changes once set, and reading
\* text changes nothing else on the node (textExcerpt and the child nodes
\* stay the same).  One read of text of a parsed node:
C14_TextRead ==
    /\ node'.textExcerpt = node.textExcerpt
    /\ GetTextExcerpt(node') = GetTextExcerpt(node)
    /\ node'.text = Some(TokenSequenceToString(node.textExcerpt[1]))
    /\ lastCall'.result = node'.text[1]
    /\ (node.text # None => node'.text = node.text)
    /\ (lastCall.op = "text" => lastCall'.result = lastCall.result)

\* C14: every read of text of a parsed node is such a read, and a read of
\* textExcerpt leaves the node as it is.
C14_TextCachedOnce ==
    [][/\ (lastCall'.op = "text" /\ node.textExcerpt # None => C14_TextRead)
       /\ (lastCall'.op = "textExcerpt" => node' = node)]_vars

\* C14 witness: the text of a parsed node was read and is now cached
C14_Witness ==
    /\ lastCall.op = "text"
    /\ node # NoNode
    /\ node.textExcerpt # None
    /\ Len(node.textExcerpt[1]) >= 2
    /\ node.text = Some(lastCall.result)

-----------------------------------------------------------------------------
(* DocHtmlView.render: claims *)

\* the example blocks of a comment, in the order of its custom blocks
ExamplesOf(dc) ==
    SelectSeq(dc.customBlocks, LAMBDA b : b.tagNameWithUpperCase = "@EXAMPLE")

\* the elements of an output that carry an example heading
ExampleHeadingsIn(output) ==
    SelectSeq(output, LAMBDA e : e.heading[1] \in {"Example", "Example "})

\* the numbers 1..9 as they are printed
Printed == <<"1", "2", "3", "4", "5", "6", "7", "8", "9">>

\* C15: with n example blocks among the custom blocks, the renderer emits n
\* example headings in encounter order: for n > 1 the i-th heading is
\* 'Example i' with i running 1..n, for n = 1 the single heading is 'Example'
\* without a number; blocks of other custom tags produce no example heading.
C15_ExampleHeadings ==
    lastCall.op = "render" =>
        LET examples == ExamplesOf(docComment)
            emitted == ExampleHeadingsIn(lastCall.result)
            n == Len(examples)
        IN  /\ Len(emitted) = n
            /\ \A i \in 1..n :
                  /\ emitted[i].content = examples[i].content
                  /\ emitted[i].heading =
                        IF n > 1 THEN <<"Example ", Printed[i]>> ELSE <<"Example">>

\* C15 witness: a comment with two example blocks and a block of another tag
\* between them was rendered with the headings 'Example 1' and 'Example 2'
C15_Witness ==
    /\ lastCall.op = "render"
    /\ Len(docComment.customBlocks) = 3
    /\ docComment.customBlocks[1] = [tagNameWithUpperCase |-> "@EXAMPLE", content |-> 1]
    /\ docComment.customBlocks[2].tagNameWithUpperCase = "@CUSTOMTAG"
    /\ docComment.customBlocks[3] = [tagNameWithUpperCase |-> "@EXAMPLE", content |-> 2]
    /\ LET emitted == ExampleHeadingsIn(lastCall.result)
       IN  /\ Len(emitted) = 2
           /\ emitted[1].heading = <<"Example ", "1">>
           /\ emitted[2].heading = <<"Example ", "2">>
           /\ emitted[2].content = 2

=============================================================================
